---- MODULE Spec2Model ----
(***************************************************************************)
(* Model of judging.py: one run of the command `main`.                     *)
(*                                                                         *)
(* Numbers.  Scores are integers; a weight is written in hundredths        *)
(* (0.20 is 20), so a weighted value and a sum of weighted values are in   *)
(* hundredths of a point.  A quotient (a mean, final_score) is kept as the *)
(* exact fraction [n, d] and compared by cross multiplication.  The        *)
(* model's arithmetic is exact; the rounding of IEEE doubles is outside    *)
(* it.                                                                     *)
(*                                                                         *)
(* Cells.  A raw csv cell is a number Num(n), a non-numeric text Text, or  *)
(* NaN (an empty cell).  A team number is an integer, NoTeam when the cell *)
(* is empty; a team name is a string, NoName when the cell is empty.       *)
(*                                                                         *)
(* Options.  --min-reviews, --top and --output are fixed for a run; each   *)
(* is drawn at the step of the run that first reads it.                    *)
(*                                                                         *)
(* Specifications.  Spec is the whole run over every folder of the bounds. *)
(* SpecValidate applies validate_scores, and SpecStats applies             *)
(* calculate_team_stats, to corpora with a wider choice of scores.         *)
(***************************************************************************)
EXTENDS Integers, Sequences, FiniteSets, TLC

\* ---------------------------------------------------------------- bounds
MaxFiles == 2
MaxRows == 3
MaxTop == 2
MaxMinReviews == 3
MaxReviews == 2

\* ------------------------------------------------------------- constants
WeightScale == 100
ScoreMin == 0
ScoreMax == 10
DisplayDecimals == 2

CRITERIA == <<"design", "originality", "impact", "technical">>

CRITERIA_WEIGHTS ==
    [design |-> 20, originality |-> 20, impact |-> 25, technical |-> 35]

\* ----------------------------------------------------------------- cells
NaN == [k |-> "nan", v |-> 0]
Text == [k |-> "text", v |-> 0]
Num(n) == [k |-> "num", v |-> n]

NoTeam == 0
NoName == ""
NameOrder == <<"A", "B">>

IsNum(c) == c.k = "num"

\* pd.to_numeric(column, errors='coerce'), cell by cell
to_numeric(c) == IF c.k = "num" THEN c ELSE NaN

\* ------------------------------------------------------ sequence helpers
Indices(s) == [i \in 1..Len(s) |-> i]

RECURSIVE Flatten(_)
Flatten(ss) == IF ss = <<>> THEN <<>> ELSE Head(ss) \o Flatten(Tail(ss))

RECURSIVE SumSeq(_)
SumSeq(s) == IF s = <<>> THEN 0 ELSE Head(s) + SumSeq(Tail(s))

Min(S) == CHOOSE x \in S : \A y \in S : x <= y

RECURSIVE SortedInts(_)
SortedInts(S) ==
    IF S = {} THEN <<>> ELSE <<Min(S)>> \o SortedInts(S \ {Min(S)})

\* Exact comparison of fractions with positive denominators.
FracLess(a, b) == a.n * b.d < b.n * a.d
FracEq(a, b) == a.n * b.d = b.n * a.d

\* ------------------------------------------------------- validate_scores
\* The range check with the ends of the range excluded.
OutOfRangeInclusive(s) == IsNum(s) /\ (s.v <= ScoreMin \/ s.v >= ScoreMax)

OutOfRange(s) == IsNum(s) /\ (s.v < ScoreMin \/ s.v > ScoreMax)

ScoreIssues(df, criterion) ==
    LET invalid_scores ==
            SelectSeq(Indices(df),
                      LAMBDA idx : OutOfRange(to_numeric(df[idx][criterion])))
    IN  [j \in 1..Len(invalid_scores) |->
            [criterion |-> criterion,
             team |-> df[invalid_scores[j]].team_number,
             judge |-> df[invalid_scores[j]].judge,
             score |-> df[invalid_scores[j]][criterion]]]

validate_scores(df) ==
    LET issues == Flatten([c \in 1..Len(CRITERIA) |-> ScoreIssues(df, CRITERIA[c])])
    IN  [valid |-> Len(issues) = 0, issues |-> issues]

\* ------------------------------------------------ validate_review_counts
TeamNumbers(df) == {df[i].team_number : i \in 1..Len(df)}

RowsOfTeam(df, t) == SelectSeq(df, LAMBDA r : r.team_number = t)

\* agg 'first': the first non-missing team name of the group, else missing
FirstName(rows) ==
    LET named == SelectSeq(rows, LAMBDA r : r.team_name # NoName)
    IN  IF named = <<>> THEN NoName ELSE named[1].team_name

\* groupby('team number'): missing keys form no group, groups in key order
review_counts(df) ==
    LET keys == SortedInts(TeamNumbers(df) \ {NoTeam})
    IN  [g \in 1..Len(keys) |->
            [team |-> keys[g],
             judge |-> Len(RowsOfTeam(df, keys[g])),
             name |-> FirstName(RowsOfTeam(df, keys[g]))]]

validate_review_counts(df, m) ==
    LET issues == SelectSeq(review_counts(df), LAMBDA row : row.judge < m)
    IN  [valid |-> Len(issues) = 0, issues |-> issues]

\* -------------------------------------------------- calculate_team_stats
Weighted(score, weight) == IF IsNum(score) THEN Num(score.v * weight) ELSE NaN

\* sum(...) over the four weighted columns: one missing value makes the sum missing
TotalWeighted(row) ==
    IF \A c \in 1..Len(CRITERIA) : IsNum(to_numeric(row[CRITERIA[c]]))
    THEN Num(SumSeq([c \in 1..Len(CRITERIA) |->
                        to_numeric(row[CRITERIA[c]]).v * CRITERIA_WEIGHTS[CRITERIA[c]]]))
    ELSE NaN

\* The per-review columns the function writes into df.
WithWeighted(row) ==
    [team_number |-> row.team_number,
     team_name |-> row.team_name,
     judge |-> row.judge,
     design |-> to_numeric(row.design),
     originality |-> to_numeric(row.originality),
     impact |-> to_numeric(row.impact),
     technical |-> to_numeric(row.technical),
     design_weighted |-> Weighted(to_numeric(row.design), CRITERIA_WEIGHTS.design),
     originality_weighted |->
         Weighted(to_numeric(row.originality), CRITERIA_WEIGHTS.originality),
     impact_weighted |-> Weighted(to_numeric(row.impact), CRITERIA_WEIGHTS.impact),
     technical_weighted |->
         Weighted(to_numeric(row.technical), CRITERIA_WEIGHTS.technical),
     total_weighted |-> TotalWeighted(row)]

weighted_df(df) == [i \in 1..Len(df) |-> WithWeighted(df[i])]

\* agg 'sum': missing values are skipped, an all-missing group sums to 0
SumSkipNa(cells) ==
    SumSeq([i \in 1..Len(SelectSeq(cells, IsNum)) |-> SelectSeq(cells, IsNum)[i].v])

\* agg 'mean': missing values are skipped, an all-missing group has no mean
MeanSkipNa(cells) ==
    IF SelectSeq(cells, IsNum) = <<>>
    THEN [k |-> "nan", n |-> 0, d |-> 1]
    ELSE [k |-> "num", n |-> SumSkipNa(cells), d |-> Len(SelectSeq(cells, IsNum))]

Column(rows, col) == [i \in 1..Len(rows) |-> rows[i][col]]

\* groupby(['team number', 'team name']): a row with a missing key is in no
\* group; the groups come in key order.
GroupKeys(df) ==
    LET teams == SortedInts(TeamNumbers(df) \ {NoTeam})
        names(t) == SelectSeq(NameOrder,
                        LAMBDA n : \E i \in 1..Len(df) :
                            df[i].team_number = t /\ df[i].team_name = n)
    IN  Flatten([g \in 1..Len(teams) |->
                    [j \in 1..Len(names(teams[g])) |->
                        [team |-> teams[g], name |-> names(teams[g])[j]]]])

GroupRows(df, key) ==
    SelectSeq(df, LAMBDA r : r.team_number = key.team /\ r.team_name = key.name)

\* The row of a group with final_score left as the sum of the totals.
TeamRowUndivided(df, key) ==
    LET rows == GroupRows(df, key)
    IN  [team_number |-> key.team,
         team_name |-> key.name,
         num_reviews |-> Len(rows),
         total_weighted |-> SumSkipNa(Column(rows, "total_weighted")),
         design |-> MeanSkipNa(Column(rows, "design")),
         originality |-> MeanSkipNa(Column(rows, "originality")),
         impact |-> MeanSkipNa(Column(rows, "impact")),
         technical |-> MeanSkipNa(Column(rows, "technical")),
         final_score |-> [n |-> SumSkipNa(Column(rows, "total_weighted")), d |-> 1]]

TeamRow(df, key) ==
    LET rows == GroupRows(df, key)
    IN  [team_number |-> key.team,
         team_name |-> key.name,
         num_reviews |-> Len(rows),
         total_weighted |-> SumSkipNa(Column(rows, "total_weighted")),
         design |-> MeanSkipNa(Column(rows, "design")),
         originality |-> MeanSkipNa(Column(rows, "originality")),
         impact |-> MeanSkipNa(Column(rows, "impact")),
         technical |-> MeanSkipNa(Column(rows, "technical")),
         final_score |-> [n |-> SumSkipNa(Column(rows, "total_weighted")),
                          d |-> Len(rows)]]

\* team_stats before the sort; df already holds the weighted columns
team_stats(df) ==
    [g \in 1..Len(GroupKeys(df)) |-> TeamRow(df, GroupKeys(df)[g])]

Orderings(n) == {p \in [1..n -> 1..n] : \A i, j \in 1..n : p[i] = p[j] => i = j}

Descending(rows) ==
    \A i, j \in 1..Len(rows) :
        i < j => ~FracLess(rows[i].final_score, rows[j].final_score)

Ascending(rows) ==
    \A i, j \in 1..Len(rows) :
        i < j => ~FracLess(rows[j].final_score, rows[i].final_score)

Reordered(rows, p) == [i \in 1..Len(rows) |-> rows[p[i]]]

\* A sort that puts the lowest final_score first (ascending=True).
sort_values_ascending(rows) ==
    {Reordered(rows, p) : p \in {q \in Orderings(Len(rows)) :
                                    Ascending(Reordered(rows, q))}}

\* sort_values('final_score', ascending=False) with the default kind
\* ('quicksort', not a stable sort): any descending order of the rows may
\* come out, rows of equal final_score in any order.
sort_values(rows) ==
    {Reordered(rows, p) : p \in {q \in Orderings(Len(rows)) :
                                    Descending(Reordered(rows, q))}}

\* The one order a stable descending sort gives.
StableDescending(rows) ==
    LET p == CHOOSE q \in Orderings(Len(rows)) :
                \A i, j \in 1..Len(rows) :
                    i < j => \/ FracLess(rows[q[j]].final_score, rows[q[i]].final_score)
                             \/ /\ FracEq(rows[q[i]].final_score, rows[q[j]].final_score)
                                /\ q[i] < q[j]
    IN  Reordered(rows, p)

\* The values calculate_team_stats can return for df.
calculate_team_stats(df) == sort_values(team_stats(weighted_df(df)))

\* -------------------------------------------------------- format_results
RECURSIVE Pow10(_)
Pow10(e) == IF e = 0 THEN 1 ELSE 10 * Pow10(e - 1)

\* n/d rounded to an integer, halves to the even neighbour (numpy's round)
RoundHalfEven(n, d) ==
    LET q == n \div d
        r == n % d
    IN  IF 2 * r < d THEN q
        ELSE IF 2 * r > d THEN q + 1
        ELSE IF q % 2 = 0 THEN q ELSE q + 1

\* x.round(2) of the fraction n / (d * scale), in units of 10^-2
Round2(n, d, scale) == RoundHalfEven(n * Pow10(DisplayDecimals), d * scale)

RoundMean(m) ==
    IF m.k = "num" THEN [k |-> "num", v |-> Round2(m.n, m.d, 1)]
    ELSE [k |-> "nan", v |-> 0]

\* DataFrame.head(n): the first n rows, or all but the last -n when n < 0
head(rows, n) ==
    IF n >= 0
    THEN SubSeq(rows, 1, IF n < Len(rows) THEN n ELSE Len(rows))
    ELSE SubSeq(rows, 1, IF Len(rows) + n > 0 THEN Len(rows) + n ELSE 0)

DisplayRow(r) ==
    [Team |-> r.team_number,
     TeamName |-> r.team_name,
     Reviews |-> r.num_reviews,
     FinalScore |-> Round2(r.final_score.n, r.final_score.d, WeightScale),
     Design |-> RoundMean(r.design),
     Originality |-> RoundMean(r.originality),
     Impact |-> RoundMean(r.impact),
     Technical |-> RoundMean(r.technical)]

\* The table rendered whole, whatever top is.
format_results_all(results, top_n) ==
    [i \in 1..Len(results) |-> DisplayRow(results[i])]

\* The rows of the table format_results renders.
format_results(results, top_n) ==
    [i \in 1..Len(head(results, top_n)) |-> DisplayRow(head(results, top_n)[i])]

\* ----------------------------------------------------------------- state
VARIABLES
    folder,        \* the csv files glob finds, in its order: [ok, rows]
    pc,            \* where the run is
    file_index,    \* the file the loading loop is at
    dfs,           \* the frames loaded so far
    warnings,      \* the files skipped with "Warning: Could not process"
    prompts,       \* the click.confirm questions asked and their answers
    combined_df,   \* the corpus
    score_issues,  \* what validate_scores reported
    review_issues, \* what validate_review_counts reported
    min_reviews,   \* --min-reviews
    results,       \* the table calculate_team_stats returned
    top,           \* --top
    displayed,     \* the rows of the table echoed
    exported,      \* the rows written by to_csv
    ran,           \* the stages of main that have run
    exit_status,   \* "running", "success" (exit 0) or "failure" (exit 1)
    message        \* the message of the ClickException that ended the run

vars ==
    <<folder, pc, file_index, dfs, warnings, prompts, combined_df, score_issues,
      review_issues, min_reviews, results, top, displayed, exported, ran,
      exit_status, message>>

\* ---------------------------------------------------------------- inputs
RawRow(team, name, d, o, i, t) ==
    [team_number |-> team, team_name |-> name,
     design |-> d, originality |-> o, impact |-> i, technical |-> t]

ScenarioA == <<Num(8), Num(7), Num(9), Num(8)>>

TupleRow(team, name, scores) ==
    RawRow(team, name, scores[1], scores[2], scores[3], scores[4])

\* Rows that differ in the team: two teams under one name, team 1 also
\* under a second name and with no name.
TeamRows ==
    {TupleRow(1, NameOrder[1], ScenarioA),
     TupleRow(2, NameOrder[1], ScenarioA),
     TupleRow(1, NameOrder[2], ScenarioA),
     TupleRow(1, NoName, ScenarioA)}

\* Rows with a defect: no team number, or a score out of range.
DefectRows ==
    {TupleRow(1, NameOrder[1], ScenarioA),
     TupleRow(NoTeam, NameOrder[1], ScenarioA),
     TupleRow(1, NameOrder[1], <<Num(11), Num(7), Num(9), Num(8)>>)}

\* A file pd.read_csv or the column lookup fails on.
Unparsable == [ok |-> FALSE, rows |-> <<>>]

Parsed(rows) == [ok |-> TRUE, rows |-> rows]

\* The files of exactly n rows; the unparsable file counts as having none.
FilesOf(pool, n) ==
    {Parsed(rows) : rows \in [1..n -> pool]}
    \cup (IF n = 0 THEN {Unparsable} ELSE {})

\* The folders of k files holding at most r rows together.
RECURSIVE FoldersOf(_, _, _)
FoldersOf(pool, k, r) ==
    IF k = 0 THEN {<<>>}
    ELSE UNION {{<<f>> \o rest : f \in FilesOf(pool, n),
                                 rest \in FoldersOf(pool, k - 1, r - n)} :
                    n \in 0..r}

Folders ==
    UNION {FoldersOf(TeamRows, k, MaxRows) \cup FoldersOf(DefectRows, k, MaxRows) :
              k \in 0..MaxFiles}

NotShown == [done |-> FALSE, rows |-> <<>>]

\* ------------------------------------------------------------------ Init
Init ==
    /\ folder \in Folders
    /\ pc = "start"
    /\ file_index = 1
    /\ dfs = <<>>
    /\ warnings = {}
    /\ prompts = <<>>
    /\ combined_df = <<>>
    /\ score_issues = <<>>
    /\ review_issues = <<>>
    /\ min_reviews = 0
    /\ results = <<>>
    /\ top = 0
    /\ displayed = NotShown
    /\ exported = NotShown
    /\ ran = {}
    /\ exit_status = "running"
    /\ message = ""

\* ------------------------------------------------- load_and_combine_csvs
\* raise click.ClickException(msg) reaching main's handler: exit code 1
Fail(msg) ==
    /\ pc' = "failed"
    /\ exit_status' = "failure"
    /\ message' = msg

Ask(at, file, answer) == Append(prompts, [at |-> at, file |-> file, answer |-> answer])

NoFiles ==
    /\ pc = "start"
    /\ folder = <<>>
    /\ Fail("No CSV files found")
    /\ UNCHANGED <<folder, file_index, dfs, warnings, prompts, combined_df,
                   score_issues, review_issues, min_reviews, results, top,
                   displayed, exported, ran>>

StartLoading ==
    /\ pc = "start"
    /\ folder # <<>>
    /\ pc' = "loading"
    /\ UNCHANGED <<folder, file_index, dfs, warnings, prompts, combined_df,
                   score_issues, review_issues, min_reviews, results, top,
                   displayed, exported, ran, exit_status, message>>

\* df['team number'].duplicated().any(); missing values count as equal
duplicated(rows) ==
    \E a, b \in 1..Len(rows) : a < b /\ rows[a].team_number = rows[b].team_number

\* df['judge'] = judge_name; the judge is named after the file
WithJudge(rows, judge) ==
    [r \in 1..Len(rows) |->
        [team_number |-> rows[r].team_number, team_name |-> rows[r].team_name,
         judge |-> judge,
         design |-> rows[r].design, originality |-> rows[r].originality,
         impact |-> rows[r].impact, technical |-> rows[r].technical]]

Loading == pc = "loading" /\ file_index <= Len(folder)

LoadRest ==
    UNCHANGED <<folder, pc, combined_df, score_issues, review_issues, min_reviews,
                results, top, displayed, exported, ran, exit_status, message>>

\* the except clause of the loop: warn and go to the next file
SkipFile ==
    /\ Loading
    /\ ~folder[file_index].ok
    /\ warnings' = warnings \cup {file_index}
    /\ file_index' = file_index + 1
    /\ UNCHANGED <<dfs, prompts>>
    /\ LoadRest

AppendFile ==
    /\ Loading
    /\ folder[file_index].ok
    /\ ~duplicated(folder[file_index].rows)
    /\ dfs' = Append(dfs, WithJudge(folder[file_index].rows, file_index))
    /\ file_index' = file_index + 1
    /\ UNCHANGED <<warnings, prompts>>
    /\ LoadRest

DuplicatesContinue ==
    /\ Loading
    /\ folder[file_index].ok
    /\ duplicated(folder[file_index].rows)
    /\ prompts' = Ask("duplicates", file_index, TRUE)
    /\ dfs' = Append(dfs, WithJudge(folder[file_index].rows, file_index))
    /\ file_index' = file_index + 1
    /\ UNCHANGED warnings
    /\ LoadRest

\* The ClickException is raised inside the try block of the loop, and the
\* loop's `except Exception` catches it: the file is skipped with a warning.
DuplicatesDecline ==
    /\ Loading
    /\ folder[file_index].ok
    /\ duplicated(folder[file_index].rows)
    /\ prompts' = Ask("duplicates", file_index, FALSE)
    /\ warnings' = warnings \cup {file_index}
    /\ file_index' = file_index + 1
    /\ UNCHANGED dfs
    /\ LoadRest

LoopDone == pc = "loading" /\ file_index > Len(folder)

NoValidData ==
    /\ LoopDone
    /\ dfs = <<>>
    /\ Fail("No valid data found in CSV files")
    /\ UNCHANGED <<folder, file_index, dfs, warnings, prompts, combined_df,
                   score_issues, review_issues, min_reviews, results, top,
                   displayed, exported, ran>>

\* pd.concat(dfs, ignore_index=True).dropna(subset=['team number'])
concat_dropna(frames) == SelectSeq(Flatten(frames), LAMBDA r : r.team_number # NoTeam)

Combine ==
    /\ LoopDone
    /\ dfs # <<>>
    /\ combined_df' = concat_dropna(dfs)
    /\ pc' = "validate_scores"
    /\ UNCHANGED <<folder, file_index, dfs, warnings, prompts, score_issues,
                   review_issues, min_reviews, results, top, displayed, exported,
                   ran, exit_status, message>>

ValidateScores ==
    /\ pc = "validate_scores"
    /\ score_issues' = validate_scores(combined_df).issues
    /\ pc' = IF validate_scores(combined_df).valid
             THEN "validate_review_counts" ELSE "confirm_scores"
    /\ UNCHANGED <<folder, file_index, dfs, warnings, prompts, combined_df,
                   review_issues, min_reviews, results, top, displayed, exported,
                   ran, exit_status, message>>

ScoresContinue ==
    /\ pc = "confirm_scores"
    /\ prompts' = Ask("scores", 0, TRUE)
    /\ pc' = "validate_review_counts"
    /\ UNCHANGED <<folder, file_index, dfs, warnings, combined_df, score_issues,
                   review_issues, min_reviews, results, top, displayed, exported,
                   ran, exit_status, message>>

\* A declined score prompt after which the run goes on.
ScoresDeclineIgnored ==
    /\ pc = "confirm_scores"
    /\ prompts' = Ask("scores", 0, FALSE)
    /\ pc' = "validate_review_counts"
    /\ UNCHANGED <<folder, file_index, dfs, warnings, combined_df, score_issues,
                   review_issues, min_reviews, results, top, displayed, exported,
                   ran, exit_status, message>>

ScoresDecline ==
    /\ pc = "confirm_scores"
    /\ prompts' = Ask("scores", 0, FALSE)
    /\ Fail("Aborting due to score validation issues")
    /\ UNCHANGED <<folder, file_index, dfs, warnings, combined_df, score_issues,
                   review_issues, min_reviews, results, top, displayed, exported,
                   ran>>

\* The option --min-reviews is read here for the first time.
ValidateReviewCounts ==
    /\ pc = "validate_review_counts"
    /\ \E m \in 1..MaxMinReviews :
        /\ min_reviews' = m
        /\ review_issues' = validate_review_counts(combined_df, m).issues
        /\ pc' = IF validate_review_counts(combined_df, m).valid
                 THEN "calculate" ELSE "confirm_reviews"
    /\ UNCHANGED <<folder, file_index, dfs, warnings, prompts, combined_df,
                   score_issues, results, top, displayed, exported, ran,
                   exit_status, message>>

ReviewsContinue ==
    /\ pc = "confirm_reviews"
    /\ prompts' = Ask("reviews", 0, TRUE)
    /\ pc' = "calculate"
    /\ UNCHANGED <<folder, file_index, dfs, warnings, combined_df, score_issues,
                   review_issues, min_reviews, results, top, displayed, exported,
                   ran, exit_status, message>>

ReviewsDecline ==
    /\ pc = "confirm_reviews"
    /\ prompts' = Ask("reviews", 0, FALSE)
    /\ Fail("Aborting due to insufficient reviews")
    /\ UNCHANGED <<folder, file_index, dfs, warnings, combined_df, score_issues,
                   review_issues, min_reviews, results, top, displayed, exported,
                   ran>>

\* ------------------------------------------------------------------ main
\* calculate_team_stats(combined_df): df is changed in place
Calculate ==
    /\ pc = "calculate"
    /\ combined_df' = weighted_df(combined_df)
    /\ results' \in calculate_team_stats(combined_df)
    /\ ran' = ran \cup {"calculate_team_stats"}
    /\ pc' = "format"
    /\ UNCHANGED <<folder, file_index, dfs, warnings, prompts, score_issues,
                   review_issues, min_reviews, top, displayed, exported,
                   exit_status, message>>

\* click.echo(format_results(results, top)); --top is read here
Display ==
    /\ pc = "format"
    /\ \E n \in -1..MaxTop :
        /\ top' = n
        /\ displayed' = [done |-> TRUE, rows |-> format_results(results, n)]
    /\ ran' = ran \cup {"format_results"}
    /\ pc' = "output"
    /\ UNCHANGED <<folder, file_index, dfs, warnings, prompts, combined_df,
                   score_issues, review_issues, min_reviews, results, exported,
                   exit_status, message>>

\* if output: results.to_csv(output, index=False)
Export ==
    /\ pc = "output"
    /\ exported' = [done |-> TRUE, rows |-> results]
    /\ ran' = ran \cup {"to_csv"}
    /\ pc' = "done"
    /\ exit_status' = "success"
    /\ UNCHANGED <<folder, file_index, dfs, warnings, prompts, combined_df,
                   score_issues, review_issues, min_reviews, results, top,
                   displayed, message>>

NoExport ==
    /\ pc = "output"
    /\ pc' = "done"
    /\ exit_status' = "success"
    /\ UNCHANGED <<folder, file_index, dfs, warnings, prompts, combined_df,
                   score_issues, review_issues, min_reviews, results, top,
                   displayed, exported, ran, message>>

Next ==
    \/ NoFiles
    \/ StartLoading
    \/ SkipFile
    \/ AppendFile
    \/ DuplicatesContinue
    \/ DuplicatesDecline
    \/ NoValidData
    \/ Combine
    \/ ValidateScores
    \/ ScoresContinue
    \/ ScoresDecline
    \/ ValidateReviewCounts
    \/ ReviewsContinue
    \/ ReviewsDecline
    \/ Calculate
    \/ Display
    \/ Export
    \/ NoExport

Spec == Init /\ [][Next]_vars

\* ------------------------------------------------- the functions alone
\* The state the run is in when the files of a folder of one-row files,
\* one per judge, have been loaded and combined.
Loaded(raw) ==
    /\ folder = [k \in 1..Len(raw) |-> Parsed(<<raw[k]>>)]
    /\ file_index = Len(raw) + 1
    /\ dfs = [k \in 1..Len(raw) |-> WithJudge(<<raw[k]>>, k)]
    /\ warnings = {}
    /\ combined_df = concat_dropna([k \in 1..Len(raw) |-> WithJudge(<<raw[k]>>, k)])
    /\ results = <<>>
    /\ top = 0
    /\ displayed = NotShown
    /\ exported = NotShown
    /\ ran = {}
    /\ exit_status = "running"
    /\ message = ""

\* The cells a criterion column is drawn from: empty, text, and numbers
\* below, at, inside and above the ends of the range.
Cells == {NaN, Text, Num(-1), Num(0), Num(5), Num(10), Num(11)}

\* validate_scores on every one-review corpus over Cells.
InitValidate ==
    /\ \E scores \in [1..Len(CRITERIA) -> Cells] :
          Loaded(<<TupleRow(1, NameOrder[1], scores)>>)
    /\ pc = "validate_scores"
    /\ prompts = <<>>
    /\ score_issues = <<>>
    /\ review_issues = <<>>
    /\ min_reviews = 0

NextValidate == ValidateScores

SpecValidate == InitValidate /\ [][NextValidate]_vars

\* The score tuples of the aggregation runs: every tuple of lowest and
\* highest valid scores, scenario A, and scenario A with one cell text,
\* empty, above the range or below it.
StatTuples ==
    [1..Len(CRITERIA) -> {Num(0), Num(10)}]
    \cup {ScenarioA,
          <<Num(8), Num(7), Num(9), Text>>,
          <<NaN, Num(7), Num(9), Num(8)>>,
          <<Num(8), Num(7), Num(11), Num(8)>>,
          <<Num(8), Num(-1), Num(9), Num(8)>>}

StatRows == {TupleRow(t, NameOrder[1], scores) : t \in {1, 2}, scores \in StatTuples}

StatCorpora == UNION {[1..k -> StatRows] : k \in 0..MaxReviews}

\* calculate_team_stats on every corpus of at most MaxReviews reviews, each
\* by its own judge; the run reached it past both checks (the score prompt
\* answered with continue where it was asked, --min-reviews 1).
InitStats ==
    /\ \E raw \in StatCorpora : Loaded(raw)
    /\ pc = "calculate"
    /\ score_issues = validate_scores(combined_df).issues
    /\ prompts = IF validate_scores(combined_df).valid THEN <<>>
                 ELSE <<[at |-> "scores", file |-> 0, answer |-> TRUE]>>
    /\ review_issues = <<>>
    /\ min_reviews = 1

NextStats == Calculate

SpecStats == InitStats /\ [][NextStats]_vars

\* ================================================================ claims
Declined(at) == \E k \in 1..Len(prompts) : prompts[k].at = at /\ ~prompts[k].answer

Continued(at) == \E k \in 1..Len(prompts) : prompts[k].at = at /\ prompts[k].answer

\* The files whose frame was appended to dfs.
LoadedFiles == (1..(file_index - 1)) \ warnings

Aggregated == "calculate_team_stats" \in ran

\* The reviews of team number t in the corpus.
ReviewCount(t) == Cardinality({i \in 1..Len(combined_df) : combined_df[i].team_number = t})

\* Some team number appears more than once in file f.
RepeatsTeam(f) ==
    \E a, b \in 1..Len(folder[f].rows) :
        /\ a < b
        /\ folder[f].rows[a].team_number # NoTeam
        /\ folder[f].rows[a].team_number = folder[f].rows[b].team_number

\* C1: once the operator has declined to continue past a file in which a
\* team number appears more than once, no later file is loaded, no later
\* question is asked, the run does not end in success, and nothing is
\* aggregated, displayed or exported.
C1_DeclinedDuplicatesAbort ==
    \A k \in 1..Len(prompts) :
        (/\ prompts[k].at = "duplicates"
         /\ ~prompts[k].answer
         /\ RepeatsTeam(prompts[k].file)) =>
            /\ \A j \in LoadedFiles : j < prompts[k].file
            /\ k = Len(prompts)
            /\ exit_status # "success"
            /\ ~Aggregated
            /\ ~displayed.done
            /\ ~exported.done

\* C3: when the operator has declined at the score or at the review-count
\* checkpoint, the run has failed and nothing was aggregated, displayed or
\* exported; and an export is only written when every checkpoint that
\* raised issues on the corpus was answered with continue.
C3_DeclinedCheckpointIsFatal ==
    /\ (Declined("scores") \/ Declined("reviews")) =>
            /\ pc = "failed"
            /\ exit_status = "failure"
            /\ ~Aggregated
            /\ ~displayed.done
            /\ ~exported.done
    /\ exported.done =>
            /\ score_issues # <<>> => Continued("scores")
            /\ review_issues # <<>> => Continued("reviews")
            /\ ~Declined("scores")
            /\ ~Declined("reviews")

\* Both checkpoints raised issues, the first was continued, the second declined.
C3_Witness ==
    /\ pc = "failed"
    /\ score_issues # <<>>
    /\ Continued("scores")
    /\ review_issues # <<>>
    /\ Declined("reviews")
    /\ message = "Aborting due to insufficient reviews"

\* An export written after both checkpoints raised issues and were continued.
C3_WitnessExport ==
    /\ exported.done
    /\ score_issues # <<>>
    /\ review_issues # <<>>

\* The loading stage is over: it raised, or the corpus is assembled.
LoadingEnded ==
    \/ pc = "validate_scores"
    \/ pc = "failed" /\ message \in {"No CSV files found", "No valid data found in CSV files"}

\* C4: the loading stage ends in the fatal abort exactly when no file
\* yielded a record; otherwise the files that could not be loaded are the
\* ones skipped with a warning, they contribute no row, and the corpus
\* holds the rows of the other files.
C4_AbortIffNoRecord ==
    LoadingEnded =>
        /\ pc = "failed" <=> ~\E j \in LoadedFiles : Len(folder[j].rows) > 0
        /\ pc # "failed" =>
            /\ \A j \in 1..Len(folder) : ~folder[j].ok => j \in warnings
            /\ \A i \in 1..Len(combined_df) : combined_df[i].judge \notin warnings
            /\ \A j \in LoadedFiles :
                  \A r \in 1..Len(folder[j].rows) :
                      folder[j].rows[r].team_number # NoTeam =>
                          \E i \in 1..Len(combined_df) :
                              /\ combined_df[i].judge = j
                              /\ combined_df[i].team_number = folder[j].rows[r].team_number
                              /\ combined_df[i].team_name = folder[j].rows[r].team_name

\* The review-count check has run.
CountsChecked == pc \in {"confirm_reviews", "calculate", "format", "output", "done"}

FlaggedTeams == {review_issues[k].team : k \in 1..Len(review_issues)}

\* The operator was asked, or is being asked, about the review counts.
ReviewCheckpointRaised ==
    pc = "confirm_reviews" \/ \E k \in 1..Len(prompts) : prompts[k].at = "reviews"

\* C5: the review-count check flags exactly the team numbers with fewer
\* than min_reviews review rows and asks the operator iff some team is
\* flagged; once aggregated, each flagged team has one row of the table,
\* with its review count, and so has the export.
C5_FlaggedTeamsKeepTheirCount ==
    /\ CountsChecked =>
        /\ FlaggedTeams = {t \in TeamNumbers(combined_df) : ReviewCount(t) < min_reviews}
        /\ ReviewCheckpointRaised <=> FlaggedTeams # {}
    /\ Aggregated =>
        \A t \in FlaggedTeams :
            /\ \E g \in 1..Len(results) :
                  results[g].team_number = t /\ results[g].num_reviews = ReviewCount(t)
            /\ exported.done =>
                  \E g \in 1..Len(exported.rows) :
                      /\ exported.rows[g].team_number = t
                      /\ exported.rows[g].num_reviews = ReviewCount(t)

\* C10: once aggregated, each team number of the corpus has exactly one row
\* of the table, that row's num_reviews is the number of the team's review
\* rows, and when the check raised no issue every row has at least
\* min_reviews reviews.
C10_CheckAndAggregatorAgree ==
    Aggregated =>
        /\ review_issues = <<>> =>
              \A g \in 1..Len(results) : results[g].num_reviews >= min_reviews
        /\ \A t \in TeamNumbers(combined_df) :
              /\ Cardinality({g \in 1..Len(results) : results[g].team_number = t}) = 1
              /\ \A g \in 1..Len(results) :
                    results[g].team_number = t => results[g].num_reviews = ReviewCount(t)

Abs(x) == IF x < 0 THEN -x ELSE x

Smaller(a, b) == IF a < b THEN a ELSE b

\* Display row d shows row r of the table: its key and review count, and its
\* final score to the nearest hundredth.
RowShown(d, r) ==
    /\ d.Team = r.team_number
    /\ d.TeamName = r.team_name
    /\ d.Reviews = r.num_reviews
    /\ 2 * Abs(d.FinalScore * r.final_score.d * WeightScale
               - r.final_score.n * Pow10(DisplayDecimals))
          <= r.final_score.d * WeightScale

\* The display holds exactly the first k rows of the table, in its order.
ShowsFirst(k) ==
    /\ Len(displayed.rows) = k
    /\ \A i \in 1..k : RowShown(displayed.rows[i], results[i])

\* C9 as stated: for every top the display holds exactly the first
\* min(top, T) rows of the table of T teams (none when that is not
\* positive), displaying never fails, and an export holds all T rows.
C9_DisplaysFirstMinRows ==
    /\ displayed.done =>
          /\ ShowsFirst(IF Smaller(top, Len(results)) > 0
                        THEN Smaller(top, Len(results)) ELSE 0)
          /\ pc \in {"output", "done"}
    /\ exported.done => exported.rows = results

\* C9, amended: for top >= 0 the display holds exactly the first
\* min(top, T) rows of the table; for top < 0 it holds the table without
\* its last -top rows; displaying never fails, and an export holds all T
\* rows whatever top is.
C9_DisplaysHeadRows ==
    /\ displayed.done =>
          /\ top >= 0 => ShowsFirst(Smaller(top, Len(results)))
          /\ top < 0 => ShowsFirst(IF Len(results) + top > 0
                                   THEN Len(results) + top ELSE 0)
          /\ pc \in {"output", "done"}
    /\ exported.done => exported.rows = results

\* top = 1 with three teams: one row displayed, three exported.
C9_Witness ==
    /\ displayed.done
    /\ top = 1
    /\ Len(results) = 3
    /\ Len(displayed.rows) = 1
    /\ exported.done
    /\ Len(exported.rows) = 3

\* validate_scores has run.
ScoresChecked ==
    pc \in {"confirm_scores", "validate_review_counts", "confirm_reviews", "calculate"}

\* The operator was asked, or is being asked, about the scores.
ScoreCheckpointRaised ==
    pc = "confirm_scores" \/ \E k \in 1..Len(prompts) : prompts[k].at = "scores"

\* The report names criterion crit of review i.
Flagged(i, crit) ==
    \E k \in 1..Len(score_issues) :
        /\ score_issues[k].criterion = crit
        /\ score_issues[k].team = combined_df[i].team_number
        /\ score_issues[k].judge = combined_df[i].judge
        /\ score_issues[k].score = combined_df[i][crit]

\* C6: the range check flags a criterion value of a review iff it is a
\* number below 0 or above 10; 0, 10, text and empty cells are not flagged;
\* the checkpoint is raised iff something is flagged; when nothing is, every
\* numeric criterion value of the corpus is within 0..10.
C6_RangeCheck ==
    ScoresChecked =>
        /\ \A i \in 1..Len(combined_df) : \A c \in 1..Len(CRITERIA) :
              Flagged(i, CRITERIA[c]) <=>
                  /\ combined_df[i][CRITERIA[c]].k = "num"
                  /\ \/ combined_df[i][CRITERIA[c]].v < 0
                     \/ combined_df[i][CRITERIA[c]].v > 10
        /\ ScoreCheckpointRaised <=> score_issues # <<>>
        /\ score_issues = <<>> =>
              \A i \in 1..Len(combined_df) : \A c \in 1..Len(CRITERIA) :
                  combined_df[i][CRITERIA[c]].k = "num" =>
                      /\ 0 <= combined_df[i][CRITERIA[c]].v
                      /\ combined_df[i][CRITERIA[c]].v <= 10

\* A review with 0, 10, a text and 11: only the 11 is flagged.
C6_Witness ==
    /\ pc = "confirm_scores"
    /\ Len(combined_df) = 1
    /\ combined_df[1].design = Num(0)
    /\ combined_df[1].originality = Num(10)
    /\ combined_df[1].impact = Text
    /\ combined_df[1].technical = Num(11)
    /\ Len(score_issues) = 1
    /\ score_issues[1].criterion = "technical"

\* The reviews of the group of row g of the table.
ReviewsOf(g) ==
    {i \in 1..Len(combined_df) :
        /\ combined_df[i].team_number = results[g].team_number
        /\ combined_df[i].team_name = results[g].team_name}

FullyValid(i) ==
    \A c \in 1..Len(CRITERIA) :
        /\ combined_df[i][CRITERIA[c]].k = "num"
        /\ 0 <= combined_df[i][CRITERIA[c]].v
        /\ combined_df[i][CRITERIA[c]].v <= 10

\* C7: the weights are non-negative and sum to 1, and a team all of whose
\* reviews have four scores within 0..10 has a final_score within 0..10.
C7_FinalScoreInRange ==
    /\ \A c \in 1..Len(CRITERIA) : CRITERIA_WEIGHTS[CRITERIA[c]] >= 0
    /\ SumSeq([c \in 1..Len(CRITERIA) |-> CRITERIA_WEIGHTS[CRITERIA[c]]]) = WeightScale
    /\ Aggregated =>
          \A g \in 1..Len(results) :
              (\A i \in ReviewsOf(g) : FullyValid(i)) =>
                  /\ 0 <= results[g].final_score.n
                  /\ results[g].final_score.n <= 10 * WeightScale * results[g].final_score.d

\* A team with two reviews of four tens each: final_score is exactly 10.
C7_Witness ==
    /\ Aggregated
    /\ \E g \in 1..Len(results) :
          /\ results[g].num_reviews = 2
          /\ \A i \in ReviewsOf(g) : FullyValid(i)
          /\ results[g].final_score.n = 10 * WeightScale * results[g].final_score.d

\* C8 as stated: the table is the grouped table sorted by final_score
\* descending with a stable sort, so that teams of equal final_score keep
\* the order of the grouping.
C8_StableDescending ==
    Aggregated => results = StableDescending(team_stats(combined_df))

\* C8, amended: the table holds the rows of the grouped table, each once,
\* and no team precedes a team of strictly higher final_score; teams of
\* equal final_score come in either order.
C8_SortedDescending ==
    Aggregated =>
        /\ \E p \in Orderings(Len(team_stats(combined_df))) :
              results = Reordered(team_stats(combined_df), p)
        /\ \A i, j \in 1..Len(results) :
              i < j => results[i].final_score.n * results[j].final_score.d
                          >= results[j].final_score.n * results[i].final_score.d

\* Two teams, the second of the grouping with the higher final_score: the
\* sort has moved it to the front.
C8_Witness ==
    /\ Aggregated
    /\ Len(results) = 2
    /\ results[1].team_number = 2
    /\ results[2].team_number = 1
    /\ FracLess(results[2].final_score, results[1].final_score)

\* The sum of score x weight over the criteria of review i that have a score.
PresentWeighted(i) ==
    SumSeq([c \in 1..Len(CRITERIA) |->
               IF combined_df[i][CRITERIA[c]].k = "num"
               THEN combined_df[i][CRITERIA[c]].v * CRITERIA_WEIGHTS[CRITERIA[c]]
               ELSE 0])

\* The sum of PresentWeighted over the reviews S.
RECURSIVE SumPresent(_)
SumPresent(S) ==
    IF S = {} THEN 0
    ELSE LET x == CHOOSE y \in S : TRUE IN PresentWeighted(x) + SumPresent(S \ {x})

\* C2: a missing criterion contributes 0 and nothing else changes: each
\* review's total_weighted is the sum of score x weight over its criteria
\* that have a score, every review is counted, and a team's final_score is
\* the sum of these totals over its review count.
C2_MissingCriterionContributesZero ==
    Aggregated =>
        /\ \A i \in 1..Len(combined_df) :
              combined_df[i].total_weighted = Num(PresentWeighted(i))
        /\ \A g \in 1..Len(results) :
              /\ results[g].num_reviews = Cardinality(ReviewsOf(g))
              /\ results[g].total_weighted = SumPresent(ReviewsOf(g))
              /\ results[g].final_score =
                    [n |-> SumPresent(ReviewsOf(g)),
                     d |-> Cardinality(ReviewsOf(g))]

====
